---- MODULE Spec2Model ----
(***************************************************************************)
(* Discord -> Slack mirror (src/main.py).                                  *)
(*                                                                         *)
(* Three specifications share this module:                                 *)
(*   Spec        successive runs of main() against the Discord channels,   *)
(*               the run-history service and the Slack webhook;            *)
(*   SpecMd      discord_to_slack_markdown as a pure function;             *)
(*   SpecRender  message_to_blocks / get_reply_info / get_discord_url as   *)
(*               pure functions of one message.                            *)
(*                                                                         *)
(* Text is a sequence of one-character strings.  A Python dict is a        *)
(* function whose DOMAIN is the set of keys present.                       *)
(***************************************************************************)
EXTENDS Integers, Sequences, FiniteSets, TLC

VARIABLES
  \* ---- the world main() runs in
  now,            \* datetime.now(timezone.utc), in ticks of one minute
  store,          \* channel id -> messages written to the channel, oldest first
  nextId,         \* next message id handed out by the source
  history,        \* run records of the run-history service, newest first
  \* ---- one run of main()
  pc,             \* position of the run: "idle", "fetch", "post", "exiting"
  channel_ids,    \* main: the list of channel ids
  idx,            \* main: index of the channel the loop is at
  since,          \* main: the resolved watermark
  sinceSrc,       \* where the watermark came from: "history" or "fallback"
  all_messages,   \* main: the accumulated messages
  raw,            \* the JSON list of the last message-list answer
  posts,          \* the bodies POSTed to the webhook by this run
  status,         \* how the run went: "running", "exited" or "errored"
  error,          \* where the exception that aborted the run was raised
  denied,         \* channels that answered 403/404 in this run
  nfaults,        \* failing calls met by this run
  \* ---- bookkeeping across runs
  nruns,          \* number of runs started
  prev,           \* the previous run: its status, watermark and watermark source
  skipped,        \* channels whose message list ever answered other than 200
  mirrored,       \* ids of the messages delivered to the webhook
  \* ---- pure-function specifications
  arg,            \* the input the function is applied to
  res,            \* its result
  phase           \* "in" before the call, "out" after

vars == <<now, store, nextId, history, pc, channel_ids, idx, since, sinceSrc,
          all_messages, raw, posts, status, error, denied, nfaults, nruns,
          prev, skipped, mirrored, arg, res, phase>>

runVars == <<now, store, nextId, history, pc, channel_ids, idx, since, sinceSrc,
             all_messages, raw, posts, status, error, denied, nfaults, nruns,
             prev, skipped, mirrored>>

pureVars == <<arg, res, phase>>

\* Python's None, among strings.
None == "<None>"

-----------------------------------------------------------------------------
(* Bounds of the model.                                                    *)

MaxLen == 5        \* longest text enumerated letter by letter
MaxTime == 2       \* latest tick at which a message is written before the single run
MaxMsgs == 2       \* messages in the channels before the single run
MaxFaults == 1     \* failing calls (non-200 answers, exceptions) met by one run
MaxClock == 1      \* strides of the clock of the successive runs
MaxArrivals == 1   \* messages written while the successive runs go on
MaxRuns == 2       \* successive runs of main()

-----------------------------------------------------------------------------
(* Text helpers.                                                           *)

Min(S) == CHOOSE x \in S : \A y \in S : x <= y

Range1(s) == {s[i] : i \in 1..Len(s)}

RECURSIVE Strings(_, _)
Strings(A, n) ==
  IF n = 0 THEN {<<>>}
  ELSE LET shorter == Strings(A, n - 1)
       IN shorter \cup {Append(s, c) : s \in {t \in shorter : Len(t) = n - 1}, c \in A}

\* s[i .. i+n-1] is n copies of ch.
AllAt(s, i, n, ch) ==
  /\ i + n - 1 <= Len(s)
  /\ \A k \in 0..(n - 1) : s[i + k] = ch

\* The lengths k the lazy group (.+?) can take when the pattern  ch{n}(.+?)ch{n}
\* is tried at position i: k >= 1 characters, none a newline ('.' does not
\* match "\n"), followed by n copies of ch.
GroupLens(s, i, n, ch) ==
  {k \in 1..Len(s) :
     /\ AllAt(s, i + n + k, n, ch)
     /\ \A j \in (i + n)..(i + n + k - 1) : s[j] # "\n"}

\* re.sub(ch{n}(.+?)ch{n}, left \1 right, s), scanning from position i:
\* leftmost match, shortest group, no overlap.
RECURSIVE SubDelimFrom(_, _, _, _, _, _)
SubDelimFrom(s, i, n, ch, left, right) ==
  IF i > Len(s) THEN <<>>
  ELSE IF AllAt(s, i, n, ch) /\ GroupLens(s, i, n, ch) # {}
  THEN LET k == Min(GroupLens(s, i, n, ch))
       IN left \o SubSeq(s, i + n, i + n + k - 1) \o right
            \o SubDelimFrom(s, i + 2 * n + k, n, ch, left, right)
  ELSE <<s[i]>> \o SubDelimFrom(s, i + 1, n, ch, left, right)

SubDelim(s, n, ch, left, right) == SubDelimFrom(s, 1, n, ch, left, right)

\* Positions j >= i with s[j] = ch.
Next1(s, i, ch) == {j \in i..Len(s) : s[j] = ch}

Digits == {"0", "1", "2", "3", "4", "5", "6", "7", "8", "9"}

\* re.sub(r"\[([^\]]+)\]\(([^)]+)\)", r"<\2|\1>", s) from position i.
\* [^\]]+ runs to the first "]", which "(" must follow; [^)]+ runs to the
\* first ")".  Both groups hold at least one character.
RECURSIVE SubLinkFrom(_, _)
SubLinkFrom(s, i) ==
  IF i > Len(s) THEN <<>>
  ELSE LET rb == IF Next1(s, i + 1, "]") = {} THEN 0 ELSE Min(Next1(s, i + 1, "]"))
           rp == IF rb = 0 \/ Next1(s, rb + 2, ")") = {} THEN 0
                 ELSE Min(Next1(s, rb + 2, ")"))
           ok == /\ s[i] = "["
                 /\ rb > i + 1
                 /\ rb + 1 <= Len(s) /\ s[rb + 1] = "("
                 /\ rp > rb + 2
       IN IF ok
          THEN <<"<">> \o SubSeq(s, rb + 2, rp - 1) \o <<"|">>
                 \o SubSeq(s, i + 1, rb - 1) \o <<">">> \o SubLinkFrom(s, rp + 1)
          ELSE <<s[i]>> \o SubLinkFrom(s, i + 1)

\* re.sub(r"<a?:([^:]+):\d+>", r":\1:", s) from position i.
RECURSIVE SubEmojiFrom(_, _)
SubEmojiFrom(s, i) ==
  IF i > Len(s) THEN <<>>
  ELSE LET c1 == IF i + 1 <= Len(s) /\ s[i + 1] = "a" /\ i + 2 <= Len(s) /\ s[i + 2] = ":"
                 THEN i + 2
                 ELSE IF i + 1 <= Len(s) /\ s[i + 1] = ":" THEN i + 1 ELSE 0
           c2 == IF c1 = 0 \/ Next1(s, c1 + 1, ":") = {} THEN 0
                 ELSE Min(Next1(s, c1 + 1, ":"))
           gt == IF c2 = 0 \/ Next1(s, c2 + 1, ">") = {} THEN 0
                 ELSE Min(Next1(s, c2 + 1, ">"))
           ok == /\ s[i] = "<"
                 /\ c2 > c1 + 1
                 /\ gt > c2 + 1
                 /\ \A j \in (c2 + 1)..(gt - 1) : s[j] \in Digits
       IN IF ok
          THEN <<":">> \o SubSeq(s, c1 + 1, c2 - 1) \o <<":">> \o SubEmojiFrom(s, gt + 1)
          ELSE <<s[i]>> \o SubEmojiFrom(s, i + 1)

-----------------------------------------------------------------------------
(* discord_to_slack_markdown.  The messages of the model carry no mentions *)
(* (mentions absent or empty), so the loop of lines 16-20 is not entered.  *)

SubTriple(s) == SubDelim(s, 3, "*", <<"*", "_">>, <<"_", "*">>)
SubDouble(s) == SubDelim(s, 2, "*", <<"*">>, <<"*">>)
SubSingle(s) == SubDelim(s, 1, "*", <<"_">>, <<"_">>)
SubStrike(s) == SubDelim(s, 2, "~", <<"~">>, <<"~">>)

discord_to_slack_markdown(content) ==
  IF content = <<>> THEN content
  ELSE SubEmojiFrom(SubStrike(SubSingle(SubDouble(SubTriple(SubLinkFrom(content, 1))))), 1)

-----------------------------------------------------------------------------
(* Python values.                                                          *)

\* dict.get(key, default)
Get(d, key, default) == IF key \in DOMAIN d THEN d[key] ELSE default

\* truth value of a str-or-None
Truthy(x) == x # None /\ x # ""

\* A function's None result where the value is otherwise a tuple.
NoUrl == <<>>

\* msg["type"] of a reply (the message-type code tested by get_reply_info)
ReplyType == 19

-----------------------------------------------------------------------------
(* Timestamps.  The source writes every timestamp in one fixed-width       *)
(* layout and one zone, so two timestamps differ only in their digits; the *)
(* model keeps the two digits of the minute field.  main() sorts by the    *)
(* string, get_discord_messages compares the parsed datetimes.             *)

DigitOf == <<"0", "1", "2", "3", "4", "5", "6", "7", "8", "9">>

ValOf(ch) == CHOOSE v \in 0..9 : DigitOf[v + 1] = ch

\* the timestamp string the source gives a message written at tick t
isoformat(t) == <<DigitOf[(t \div 10) + 1], DigitOf[(t % 10) + 1]>>

\* datetime.fromisoformat
fromisoformat(s) == 10 * ValOf(s[1]) + ValOf(s[2])

\* Python's str order: by code point, the shorter string first on a tie.
RECURSIVE StrLess(_, _)
StrLess(a, b) ==
  IF a = <<>> THEN b # <<>>
  ELSE IF b = <<>> THEN FALSE
  ELSE IF a[1] = b[1] THEN StrLess(Tail(a), Tail(b))
  ELSE ValOf(a[1]) < ValOf(b[1])

-----------------------------------------------------------------------------
(* Rendering.                                                              *)

get_discord_url(msg) ==
  IF {"guild_id", "channel_id", "id"} \subseteq DOMAIN msg
  THEN <<msg["guild_id"], msg["channel_id"], msg["id"]>>
  ELSE NoUrl

\* get_reply_info: [raised, name, url].  A referenced_message that is null
\* is modelled as the key being absent: msg.get() gives None for both.
get_reply_info(msg) ==
  IF Get(msg, "type", 0) # ReplyType
  THEN [raised |-> "", name |-> None, url |-> NoUrl]
  ELSE IF "referenced_message" \notin DOMAIN msg
  THEN [raised |-> "", name |-> None, url |-> NoUrl]
  ELSE LET ref0 == msg["referenced_message"]
           author == Get(ref0, "author", <<>>)
           gname == Get(author, "global_name", None)
           name == IF Truthy(gname) THEN gname ELSE Get(author, "username", "someone")
       IN IF "guild_id" \notin DOMAIN msg
          THEN [raised |-> "KeyError", name |-> None, url |-> NoUrl]
          ELSE LET ref == [k \in DOMAIN ref0 \cup {"guild_id"} |->
                             IF k = "guild_id" THEN msg["guild_id"] ELSE ref0[k]]
               IN [raised |-> "",
                   name |-> name,
                   url |-> IF "id" \in DOMAIN ref THEN get_discord_url(ref) ELSE NoUrl]

\* The names bound in message_to_blocks when the header of line 142 is
\* evaluated: the parameter and the assignments of lines 134-140.  No global
\* of the module is called `timestamp` or `time`.
BoundAtHeader == {"msg", "content", "author", "channel_name", "dt"}

\* The names the header expression reads, by branch of the conditional.
HeaderNames(channel_name) ==
  IF channel_name # ""
  THEN {"dt", "time", "timestamp", "author", "channel_name"}
  ELSE {"timestamp", "author"}

HeaderRaises(channel_name) == HeaderNames(channel_name) \ BoundAtHeader # {}

\* message_to_blocks: [raised, blocks].
message_to_blocks(msg) ==
  LET content == discord_to_slack_markdown(Get(msg, "content", <<>>))
      channel_name == Get(msg, "_channel_name", "")
  IN IF content = <<>> THEN [raised |-> "", blocks |-> <<>>]
     ELSE IF HeaderRaises(channel_name) THEN [raised |-> "NameError", blocks |-> <<>>]
     ELSE LET url == get_discord_url(msg)
              section == IF url # NoUrl
                         THEN [type |-> "section", text |-> content, accessory |-> url]
                         ELSE [type |-> "section", text |-> content]
              reply == get_reply_info(msg)
          IN IF reply.raised # "" THEN [raised |-> reply.raised, blocks |-> <<>>]
             \* reply_string is assigned only under `if reply_name:`, and read
             \* by the context block that is appended either way
             ELSE IF ~Truthy(reply.name)
             THEN [raised |-> "UnboundLocalError", blocks |-> <<>>]
             ELSE [raised |-> "",
                   blocks |-> <<section,
                                [type |-> "context", reply |-> reply.name, url |-> reply.url],
                                [type |-> "divider"]>>]

\* The loop of post_to_slack (lines 173-175): the blocks of the messages in
\* order, up to the first message whose rendering raises.
RECURSIVE RenderAll(_)
RenderAll(messages) ==
  IF messages = <<>> THEN [raised |-> "", blocks |-> <<>>]
  ELSE LET first == message_to_blocks(Head(messages))
       IN IF first.raised # "" THEN first
          ELSE LET rest == RenderAll(Tail(messages))
               IN [raised |-> rest.raised, blocks |-> first.blocks \o rest.blocks]

-----------------------------------------------------------------------------
(* The watermark resolver and the run-history service.                     *)

fallback_mins == 5
page_size == 10
default_limit == 100

Take(s, n) == SubSeq(s, 1, IF Len(s) < n THEN Len(s) ELSE n)

\* Faulty variant of list_runs: the status filter is dropped.
list_runs_any_status(runs) == Take(runs, page_size)

\* list_runs.sync(page=1, page_size=10, status=[EXITED]): the first page of
\* the runs whose status is "exited", newest first.
list_runs(runs) == Take(SelectSeq(runs, LAMBDA r : r.status = "exited"), page_size)

\* What can happen on the way to the run-history answer.
HistoryOutcomes == {"no_key", "ctor_raises", "call_raises", "no_response", "ok"}

\* get_last_successful_run_time: [raised, value, src].  `outcome` is what the
\* environment does, `page` the runs the service would answer with, `t` the
\* clock.  A run whose ended_at is None is a record without that key.
get_last_successful_run_time(outcome, page, t) ==
  LET fallback == [raised |-> "", value |-> t - fallback_mins, src |-> "fallback"]
      ended == {i \in 1..Len(page) : "ended_at" \in DOMAIN page[i]}
  IN IF outcome = "no_key" THEN fallback
     \* AuthenticatedClient(...) is built on line 51, before the try of line 53
     ELSE IF outcome = "ctor_raises"
     THEN [raised |-> "Exception", value |-> 0, src |-> "none"]
     ELSE IF outcome = "call_raises" THEN fallback
     ELSE IF outcome = "no_response" THEN fallback
     ELSE IF ended # {}
     THEN [raised |-> "", value |-> page[Min(ended)].ended_at, src |-> "history"]
     ELSE fallback

-----------------------------------------------------------------------------
(* The channel fetcher.                                                    *)

Channels == {"A", "B"}

NameOf(c) == IF c = "A" THEN "general" ELSE "random"

HttpStatuses == {"200", "403", "404", "500"}

\* get_channel_info: <<name, guild_id>>.  "error" is requests raising.
get_channel_info(channel_id, st) ==
  IF st \in {"403", "404"} THEN <<channel_id, None>>
  ELSE IF st = "200" THEN <<NameOf(channel_id), "g1">>
  ELSE <<channel_id, None>>

\* Faulty variant of get_discord_messages: the filter keeps a message at the watermark.
get_discord_messages_ge(st, body, watermark) ==
  IF st \in {"403", "404"} THEN [raised |-> "", messages |-> <<>>]
  ELSE IF st # "200" THEN [raised |-> "HTTPError", messages |-> <<>>]
  ELSE [raised |-> "",
        messages |-> SelectSeq(body, LAMBDA m : fromisoformat(m["timestamp"]) >= watermark)]

\* get_discord_messages: [raised, messages].  `body` is the JSON list of a
\* 200 answer.  `since` is always a datetime in main(), so the filter of
\* lines 95-99 always runs.
get_discord_messages(st, body, watermark) ==
  IF st = "403" THEN [raised |-> "", messages |-> <<>>]
  ELSE IF st = "404" THEN [raised |-> "", messages |-> <<>>]
  ELSE IF st # "200" THEN [raised |-> "HTTPError", messages |-> <<>>]
  ELSE [raised |-> "",
        messages |-> SelectSeq(body, LAMBDA m : fromisoformat(m["timestamp"]) > watermark)]

\* The message-list endpoint: the `limit` newest messages of the channel.
Newest(msgs, limit) ==
  IF Len(msgs) <= limit THEN msgs ELSE SubSeq(msgs, Len(msgs) - limit + 1, Len(msgs))

\* Every order in which the endpoint may list them.
Orders(msgs) ==
  {p \in [1..Len(msgs) -> Range1(msgs)] : \A i, j \in 1..Len(msgs) : i # j => p[i] # p[j]}

\* main, lines 230-232: the stamps put on a fetched message.
Stamp(m, channel_name, guild_id) ==
  [k \in DOMAIN m \cup {"_channel_name", "guild_id"} |->
     IF k = "_channel_name" THEN channel_name
     ELSE IF k = "guild_id" THEN guild_id
     ELSE m[k]]

StampAll(msgs, ci) == [i \in 1..Len(msgs) |-> Stamp(msgs[i], ci[1], ci[2])]

\* list.sort(key=lambda m: m.get("timestamp", "")): stable, by str order.
SortKey(m) == Get(m, "timestamp", <<>>)

RECURSIVE InsertSorted(_, _)
InsertSorted(sorted, m) ==
  IF sorted = <<>> THEN <<m>>
  ELSE IF StrLess(SortKey(m), SortKey(sorted[Len(sorted)]))
  THEN Append(InsertSorted(SubSeq(sorted, 1, Len(sorted) - 1), m), sorted[Len(sorted)])
  ELSE Append(sorted, m)

\* Faulty variant of SortByTimestamp: the list is left in fetch order.
NoSort(msgs) == msgs

RECURSIVE SortByTimestamp(_)
SortByTimestamp(msgs) ==
  IF msgs = <<>> THEN <<>>
  ELSE InsertSorted(SortByTimestamp(SubSeq(msgs, 1, Len(msgs) - 1)), msgs[Len(msgs)])

-----------------------------------------------------------------------------
(* The source: messages written to the channels.                           *)

Kinds == {"empty", "plain"}

Bold == <<"*", "*", "h", "i", "*", "*">>

\* A message as the message-list endpoint gives it (no guild_id on the wire).
WireMessage(id, c, t, kind) ==
  [id |-> id, channel_id |-> c, timestamp |-> isoformat(t),
   content |-> IF kind = "empty" THEN <<>> ELSE Bold,
   type |-> 0]

\* The run records the service holds before the first run of the model.
NoEnd == [status |-> "exited"]
InitHistories ==
  {<<>>, <<NoEnd>>, <<NoEnd, [status |-> "exited", ended_at |-> 0]>>}

ChannelOrders == {<<"A", "B">>, <<"B", "A">>}

NoPrev == [status |-> "none", since |-> 0, src |-> "none"]

\* What was written before a run: who wrote where and when, oldest first.
Writes ==
  {w \in UNION {[1..n -> Channels \X Kinds \X (0..MaxTime)] : n \in 0..MaxMsgs} :
     \A i, j \in DOMAIN w : i < j => w[i][3] <= w[j][3]}

RECURSIVE StoreOf(_, _, _)
StoreOf(w, c, n) ==
  IF n = 0 THEN <<>>
  ELSE IF w[n][1] = c
  THEN Append(StoreOf(w, c, n - 1), WireMessage(n, c, w[n][3], w[n][2]))
  ELSE StoreOf(w, c, n - 1)

\* The process has not started.
NoRun ==
  /\ pc = "idle"
  /\ idx = 1
  /\ since = 0
  /\ sinceSrc = "none"
  /\ all_messages = <<>>
  /\ raw = <<>>
  /\ posts = <<>>
  /\ status = "none"
  /\ error = ""
  /\ denied = {}
  /\ nfaults = 0
  /\ nruns = 0
  /\ prev = NoPrev
  /\ skipped = {}
  /\ mirrored = {}

NoCall == arg = <<>> /\ res = <<>> /\ phase = "none"

\* One run of main(), started one tick after the fallback lookback has
\* passed tick 0, over channels that hold what was written so far.
Init ==
  /\ now = fallback_mins + 1
  /\ \E w \in Writes :
       /\ store = [c \in Channels |-> StoreOf(w, c, Len(w))]
       /\ nextId = Len(w) + 1
  /\ history \in InitHistories
  /\ channel_ids \in ChannelOrders
  /\ NoRun
  /\ NoCall

\* Successive runs mirroring one channel, from empty channels at tick 0.
InitRuns ==
  /\ now = 0
  /\ store = [c \in Channels |-> <<>>]
  /\ nextId = 1
  /\ history \in InitHistories
  /\ channel_ids = <<"A">>
  /\ NoRun
  /\ NoCall

\* Time passes between the steps of the successive runs; their clock
\* advances in strides of one lookback window.
Tick ==
  /\ now + fallback_mins <= MaxClock * fallback_mins
  /\ now' = now + fallback_mins
  /\ UNCHANGED <<store, nextId, history, pc, channel_ids, idx, since, sinceSrc,
                 all_messages, raw, posts, status, error, denied, nfaults, nruns,
                 prev, skipped, mirrored, arg, res, phase>>

\* Somebody writes a message to a mirrored channel.
Arrive ==
  /\ nextId <= MaxArrivals
  /\ \E c \in Range1(channel_ids), kind \in Kinds :
       store' = [store EXCEPT ![c] = Append(@, WireMessage(nextId, c, now, kind))]
  /\ nextId' = nextId + 1
  /\ UNCHANGED <<now, history, pc, channel_ids, idx, since, sinceSrc,
                 all_messages, raw, posts, status, error, denied, nfaults, nruns,
                 prev, skipped, mirrored, arg, res, phase>>

\* The failing calls among the given answers.
Faults(answers) == Cardinality({i \in DOMAIN answers : answers[i] \notin {"200", "ok"}})

\* main, lines 201-223: a run starts (the configuration is complete) and
\* resolves its watermark.
Resolve ==
  /\ pc = "idle"
  /\ nruns < MaxRuns
  /\ nruns' = nruns + 1
  /\ \E outcome \in HistoryOutcomes :
       LET r == get_last_successful_run_time(outcome, list_runs(history), now)
       IN /\ Faults(<<outcome>>) <= MaxFaults
          /\ nfaults' = Faults(<<outcome>>)
          /\ since' = r.value
          /\ sinceSrc' = r.src
          /\ IF r.raised # ""
             THEN pc' = "exiting" /\ status' = "errored" /\ error' = "resolver"
             ELSE pc' = "fetch" /\ status' = "running" /\ error' = ""
  /\ idx' = 1
  /\ all_messages' = <<>>
  /\ raw' = <<>>
  /\ posts' = <<>>
  /\ denied' = {}
  /\ UNCHANGED <<now, store, nextId, history, channel_ids, prev, skipped,
                 mirrored, arg, res, phase>>

\* main, lines 226-234: one turn of the loop over the channels.
FetchChannel ==
  /\ pc = "fetch"
  /\ LET channel_id == channel_ids[idx]
     IN \E ist \in HttpStatuses \cup {"error"}, st \in HttpStatuses :
        \E body \in Orders(Newest(store[channel_id], default_limit)) :
          LET ci == get_channel_info(channel_id, ist)
              r == get_discord_messages(st, body, since)
          IN /\ nfaults + Faults(<<ist, st>>) <= MaxFaults
             /\ nfaults' = nfaults + Faults(<<ist, st>>)
             /\ denied' = denied \cup
                  (IF ist \in {"403", "404"} \/ st \in {"403", "404"}
                   THEN {channel_id} ELSE {})
             /\ skipped' = skipped \cup (IF st # "200" THEN {channel_id} ELSE {})
             /\ raw' = IF st = "200" THEN body ELSE <<>>
             /\ IF r.raised # ""
                THEN /\ pc' = "exiting" /\ status' = "errored" /\ error' = "fetch"
                     /\ UNCHANGED <<all_messages, idx>>
                ELSE /\ all_messages' = all_messages \o StampAll(r.messages, ci)
                     /\ idx' = idx + 1
                     /\ pc' = IF idx = Len(channel_ids) THEN "post" ELSE "fetch"
                     /\ UNCHANGED <<status, error>>
  /\ UNCHANGED <<now, store, nextId, history, channel_ids, since, sinceSrc,
                 posts, nruns, prev, mirrored, arg, res, phase>>

\* The ids of the messages that put blocks into the batch.
Carried(messages) ==
  {messages[i]["id"] : i \in {j \in 1..Len(messages) :
                                message_to_blocks(messages[j]).blocks # <<>>}}

\* main, lines 236-244, with post_to_slack (lines 167-180).
Post ==
  /\ pc = "post"
  /\ LET sorted == SortByTimestamp(all_messages)
         r == RenderAll(sorted)
     IN /\ all_messages' = sorted
        /\ IF sorted = <<>> \/ (r.raised = "" /\ r.blocks = <<>>)
           THEN /\ status' = "exited" /\ error' = ""
                /\ UNCHANGED <<posts, mirrored, nfaults>>
           ELSE IF r.raised # ""
           THEN /\ status' = "errored" /\ error' = "render"
                /\ UNCHANGED <<posts, mirrored, nfaults>>
           ELSE \E answer \in {"200", "500"} :
                  /\ nfaults + Faults(<<answer>>) <= MaxFaults
                  /\ nfaults' = nfaults + Faults(<<answer>>)
                  /\ posts' = Append(posts, r.blocks)
                  /\ IF answer = "200"
                     THEN /\ status' = "exited" /\ error' = ""
                          /\ mirrored' = mirrored \cup Carried(sorted)
                     ELSE /\ status' = "errored" /\ error' = "webhook"
                          /\ UNCHANGED mirrored
  /\ pc' = "exiting"
  /\ raw' = <<>>
  /\ UNCHANGED <<now, store, nextId, history, channel_ids, idx, since, sinceSrc,
                 denied, nruns, prev, skipped, arg, res, phase>>

\* The process exits and the platform records the run with its end time:
\* "exited" after a normal return, "errored" after an uncaught exception.
RunEnd ==
  /\ pc = "exiting"
  /\ history' = <<[status |-> status, ended_at |-> now]>> \o history
  /\ prev' = [status |-> status, since |-> since, src |-> sinceSrc]
  /\ pc' = "idle"
  \* nothing of the process outlives it
  /\ idx' = 1
  /\ since' = 0
  /\ sinceSrc' = "none"
  /\ all_messages' = <<>>
  /\ raw' = <<>>
  /\ posts' = <<>>
  /\ status' = "none"
  /\ error' = ""
  /\ denied' = {}
  /\ nfaults' = 0
  /\ UNCHANGED <<now, store, nextId, channel_ids, nruns, skipped, mirrored,
                 arg, res, phase>>

\* One run.
Next == Resolve \/ FetchChannel \/ Post

Spec == Init /\ [][Next]_vars

\* Successive runs while messages arrive and time passes.
NextRuns == Tick \/ Arrive \/ Resolve \/ FetchChannel \/ Post \/ RunEnd

SpecRuns == InitRuns /\ [][NextRuns]_vars

-----------------------------------------------------------------------------
(* discord_to_slack_markdown as a pure function.                           *)

MdAlphabet == {"*", "~", "a"}

TripleA == <<"*", "*", "*", "a", "*", "*", "*">>
DoubleA == <<"*", "*", "a", "*", "*">>
SingleA == <<"*", "a", "*">>
Overlap == <<"*", "*", "a", "*", "*", " ", "a", "n", "d", " ", "*", "b", "*">>

MdExamples ==
  {TripleA, DoubleA, SingleA, Overlap,
   <<"[", "a", "]", "(", "u", ")">>,
   <<"<", ":", "e", ":", "1", ">">>,
   <<"<", "a", ":", "e", ":", "1", ">">>,
   <<"*", "\n", "*", "a", "*">>}

\* No process runs in the pure-function specifications.
NoWorld ==
  /\ now = 0
  /\ store = [c \in Channels |-> <<>>]
  /\ nextId = 1
  /\ history = <<>>
  /\ channel_ids = <<"A">>
  /\ NoRun

InitMd ==
  /\ NoWorld
  /\ arg \in Strings(MdAlphabet, MaxLen) \cup MdExamples
  /\ res = <<>>
  /\ phase = "in"

Convert ==
  /\ phase = "in"
  /\ res' = discord_to_slack_markdown(arg)
  /\ phase' = "out"
  /\ UNCHANGED <<arg, runVars>>

SpecMd == InitMd /\ [][Convert]_vars

-----------------------------------------------------------------------------
(* message_to_blocks, get_discord_url and get_reply_info as pure functions *)
(* of one message: as the endpoint gives it, or as main() stamps it after  *)
(* any answer of the channel-info endpoint.                                *)

\* referenced_message of a reply.  `if ref.get("id")` is modelled by the
\* presence of the key (ids are non-empty strings on the wire).
Refs ==
  {[id |-> 7, channel_id |-> "A", author |-> [username |-> "bob"]],
   [id |-> 7, channel_id |-> "A", author |-> [global_name |-> "Bob", username |-> "bob"]],
   [channel_id |-> "A", author |-> [username |-> "bob"]]}

WithType(m, type) == [m EXCEPT !["type"] = type]

WireInputs ==
  LET plain == {WithType(WireMessage(1, c, 0, kind), type) :
                  c \in Channels, kind \in Kinds, type \in {0, ReplyType}}
  IN plain \cup {m @@ [referenced_message |-> ref] : m \in plain, ref \in Refs}

RenderInputs ==
  WireInputs \cup
    UNION {{Stamp(m, get_channel_info(m["channel_id"], st)[1],
                     get_channel_info(m["channel_id"], st)[2]) :
              st \in HttpStatuses \cup {"error"}} : m \in WireInputs}

InitRender ==
  /\ NoWorld
  /\ arg \in RenderInputs
  /\ res = <<>>
  /\ phase = "in"

Render ==
  /\ phase = "in"
  /\ res' = [render |-> message_to_blocks(arg),
             url |-> get_discord_url(arg),
             reply |-> get_reply_info(arg)]
  /\ phase' = "out"
  /\ UNCHANGED <<arg, runVars>>

SpecRender == InitRender /\ [][Render]_vars

-----------------------------------------------------------------------------
(* Properties.                                                             *)

TimeOf(m) == fromisoformat(m["timestamp"])

Ids(msgs) == {msgs[i]["id"] : i \in DOMAIN msgs}

\* The run went through the loop over the channels and sorted its list.
Handed == pc = "exiting" /\ error \notin {"resolver", "fetch"}

\* The messages handed over whose converted content is not empty.
NonEmpty(msgs) ==
  {i \in DOMAIN msgs : discord_to_slack_markdown(Get(msgs[i], "content", <<>>)) # <<>>}

\* C1 (Spec): a fetched message is kept exactly when its timestamp is
\* strictly greater than the watermark: nothing at or below the watermark
\* is in all_messages, and every message of the last answer above it is.
C1_StrictWatermark ==
  /\ \A i \in DOMAIN all_messages : TimeOf(all_messages[i]) > since
  /\ \A i \in DOMAIN raw :
       TimeOf(raw[i]) > since => raw[i]["id"] \in Ids(all_messages)

\* An answer held a message at the watermark, which was dropped, and one a
\* tick later, which was kept.
C1_Witness ==
  \E i, j \in DOMAIN raw :
    /\ TimeOf(raw[i]) = since
    /\ raw[i]["id"] \notin Ids(all_messages)
    /\ TimeOf(raw[j]) = since + 1
    /\ raw[j]["id"] \in Ids(all_messages)

\* C2 (Spec): the list main() hands to post_to_slack is ascending by
\* timestamp, whatever the order of the channels and of each answer.
C2_GlobalOrder ==
  Handed =>
    \A i, j \in DOMAIN all_messages :
      i < j => TimeOf(all_messages[i]) <= TimeOf(all_messages[j])

\* The list handed over starts with a message of the channel listed second
\* that is older than a message of the channel listed first.
C2_Witness ==
  /\ Handed
  /\ \E i, j \in DOMAIN all_messages :
       /\ i < j
       /\ all_messages[i]["channel_id"] = channel_ids[2]
       /\ all_messages[j]["channel_id"] = channel_ids[1]
       /\ TimeOf(all_messages[i]) < TimeOf(all_messages[j])

\* C3 (Spec): the watermark resolver never raises; it returns the end time
\* of the first run of the page that has one, or now - 5 minutes.
C3_ResolverNeverRaises ==
  pc # "idle" =>
    /\ error # "resolver"
    /\ LET page == list_runs(history)
           ended == {i \in 1..Len(page) : "ended_at" \in DOMAIN page[i]}
       IN \/ sinceSrc = "fallback" /\ since = now - fallback_mins
          \/ sinceSrc = "history" /\ ended # {} /\ since = page[Min(ended)].ended_at

\* C4 (Spec): a run in which a channel answered 403/404, and no other call
\* failed, goes through every channel of the list, posts the messages of
\* the other channels and ends successfully.
C4_DeniedChannelDoesNotAbort ==
  (pc = "exiting" /\ denied # {} /\ error \notin {"resolver", "fetch", "webhook"}) =>
    /\ idx = Len(channel_ids) + 1
    /\ status = "exited"
    /\ NonEmpty(all_messages) # {} => Len(posts) = 1

\* C5 (Spec): a run that meets no fatal answer issues exactly one POST when
\* some new message has non-empty converted content, none otherwise, and
\* ends successfully; no run issues more than one POST.
C5_SingleBatchedPost ==
  /\ Len(posts) <= 1
  /\ (pc = "exiting" /\ error \notin {"resolver", "fetch", "webhook"}) =>
       /\ status = "exited"
       /\ Len(posts) = IF NonEmpty(all_messages) # {} THEN 1 ELSE 0

\* C6 (SpecMd): ***a*** becomes *_a_*, **a** becomes *a*, *a* becomes _a_,
\* and **a** and *b* becomes *a* and _b_.
C6_EmphasisPrecedence ==
  phase = "out" =>
    /\ arg = TripleA => res = <<"*", "_", "a", "_", "*">>
    /\ arg = DoubleA => res = <<"*", "a", "*">>
    /\ arg = SingleA => res = <<"_", "a", "_">>
    /\ arg = Overlap =>
         res = <<"*", "a", "*", " ", "a", "n", "d", " ", "_", "b", "_">>

\* The message is a reply to another message.
IsReply(msg) == Get(msg, "type", 0) = ReplyType /\ "referenced_message" \in DOMAIN msg

BlockTypes(blocks) == [i \in DOMAIN blocks |-> blocks[i]["type"]]

\* C7 (SpecRender): empty converted content gives no blocks; otherwise the
\* rendering succeeds with a section, a context block exactly for a reply,
\* and a divider.
C7_BlockShape ==
  phase = "out" =>
    /\ res.render.raised = ""
    /\ BlockTypes(res.render.blocks) =
         IF discord_to_slack_markdown(Get(arg, "content", <<>>)) = <<>> THEN <<>>
         ELSE IF IsReply(arg) THEN <<"section", "context", "divider">>
         ELSE <<"section", "divider">>

\* C9 (SpecRender): a message stamped with guild_id = None gets no URL, for
\* itself or for the message it replies to, and no accessory on its section.
C9_LinkOnlyWhenKnown ==
  (phase = "out" /\ "guild_id" \in DOMAIN arg /\ arg["guild_id"] = None) =>
    /\ res.url = NoUrl
    /\ res.reply.url = NoUrl
    /\ \A i \in DOMAIN res.render.blocks : "accessory" \notin DOMAIN res.render.blocks[i]

\* The run has resolved a watermark, after a run that resolved one and aborted.
AfterFailedRun == pc # "idle" /\ sinceSrc # "none" /\ prev.status = "errored" /\ prev.src # "none"

\* C8 (SpecRuns), as claimed: the run after an aborted run covers the
\* window of the aborted run again, wherever the two watermarks came from:
\* every message above the aborted run's watermark is above its own.
C8_FailedRunRecovered ==
  AfterFailedRun =>
    \A c \in Channels : \A i \in DOMAIN store[c] :
      TimeOf(store[c][i]) > prev.since => TimeOf(store[c][i]) > since

\* C8 (SpecRuns), amended: when both the aborted run and the next one take
\* the watermark from the run-history service, the watermark is the same,
\* and every message above the aborted run's watermark is above it.
C8_SameHistoryWatermark ==
  (AfterFailedRun /\ prev.src = "history" /\ sinceSrc = "history") =>
    /\ since = prev.since
    /\ \A c \in Channels : \A i \in DOMAIN store[c] :
         TimeOf(store[c][i]) > prev.since => TimeOf(store[c][i]) > since

\* Both runs took the watermark from the service, and a message written
\* before the second one is above it.
C8_Witness ==
  /\ AfterFailedRun
  /\ prev.src = "history"
  /\ sinceSrc = "history"
  /\ \E c \in Channels : \E i \in DOMAIN store[c] : TimeOf(store[c][i]) > since

\* C10 (SpecRuns): when a run takes as watermark the end time of the
\* successful run before it, every message with non-empty content of a
\* channel that always answered 200, written at or before the watermark,
\* has been delivered.
C10_NoMessageLost ==
  (pc # "idle" /\ sinceSrc = "history" /\ prev.status = "exited") =>
    \A c \in Range1(channel_ids) \ skipped :
      \A i \in NonEmpty(store[c]) :
        TimeOf(store[c][i]) <= since => store[c][i]["id"] \in mirrored

====
